---- MODULE Spec2Model ----
(***************************************************************************)
(* State-machine model of the UDPBD server of udpbd-vexfat:                *)
(*   src/src/protocol.rs  wire structs (Header, BlockType, ...)            *)
(*   src/src/vexfat.rs    the block device wrapper and block-shift tuning  *)
(*   src/src/server.rs    the receive loop and the four command handlers   *)
(*   src/src/utils.rs     rounding helpers used when sizing the image      *)
(*                                                                         *)
(* Integers keep the width they have in the source.  An arithmetic        *)
(* overflow panics when the build has overflow checks (debug profile) and  *)
(* wraps when it has not (release profile); overflow_checks records which  *)
(* build is running.  A panic unwinds the only thread: the receive loop    *)
(* ends and no further datagram is handled.                                *)
(***************************************************************************)
EXTENDS Integers, Sequences, FiniteSets, TLC

VARIABLES
    overflow_checks,   \* TRUE: debug build (overflow panics); FALSE: release (wraps)
    panicked,          \* TRUE once a handler has panicked
    buf,               \* first bytes of run()'s receive buffer (1-based)
    traffic,           \* which traffic the clients send (never changes)
    addr,              \* source address of the datagram handled last
    dispatched,        \* the arm of run()'s match the last datagram took
    block_device,      \* struct VexFat (vexfat.rs 18-25) with the device cursor
    write_size_left,   \* Server::write_size_left
    write_rdma_valid,  \* Server::write_rdma_valid
    sent,              \* datagrams passed to send_to while handling the last datagram
    session            \* observer of the write session: total, the bytes the last
                       \* Write asked for; recv, the bytes block_count * block_size
                       \* of the WriteRdma packets since (capped at total);
                       \* open_before, whether write_size_left was above 0 when
                       \* the last datagram arrived
VARIABLES
    tree,              \* what VexFat::new counted in the root directory and the
                       \* cluster_count it derived
    codec,             \* the last run of a bitfield through its accessors: the
                       \* fields, the bytes, and what came back
    call               \* the last call of a helper of utils.rs with T = u8: the
                       \* function, its arguments, whether it panicked, its value

vars == <<overflow_checks, panicked, traffic, buf, addr, dispatched, block_device,
          write_size_left, write_rdma_valid, sent, session, tree, codec, call>>

(***************************************************************************)
(* protocol.rs: constants and command codes                                *)
(***************************************************************************)
UDP_MAX_PAYLOAD == 1472
SizeOfHeader == 2
SizeOfBlockType == 4
SizeOfInfoReply == 10
SizeOfReadWriteRequest == 8
SizeOfWriteReply == 6
RDMA_MAX_PAYLOAD == UDP_MAX_PAYLOAD - SizeOfHeader - SizeOfBlockType

CmdInfo == 0
CmdInfoReply == 1
CmdRead == 2
CmdReadRdma == 3
CmdWrite == 4
CmdWriteRdma == 5
CmdWriteDone == 6

U8 == 256
U16 == 65536

(***************************************************************************)
(* Header: #[bitfield(u16)], command bits 0..=4, command_id bits 5..=7,    *)
(* command_pkt bits 8..=15.  A header is its raw u16 value.                *)
(***************************************************************************)
command(raw) == raw % 32
command_id(raw) == (raw \div 32) % 8
command_pkt(raw) == (raw \div 256) % 256

with_command(raw, c) == (raw - (raw % 32)) + (c % 32)
\* with_command_id for a command_id that starts at bit 4
with_command_id_from_bit_4(raw, i) == (raw - 16 * ((raw \div 16) % 8)) + 16 * (i % 8)
with_command_id(raw, i) == (raw - 32 * ((raw \div 32) % 8)) + 32 * (i % 8)
with_command_pkt(raw, p) == (raw % 256) + 256 * (p % 256)

\* Command is a non-exhaustive bitenum: codes 0..6 decode, 7..31 are Err(code).
KnownCommand(c) == c \in CmdInfo..CmdWriteDone

(***************************************************************************)
(* BlockType: #[bitfield(u32)], block_shift bits 0..=3, block_count bits   *)
(* 4..=12, spare bits 13..=31.                                             *)
(***************************************************************************)
bt_block_shift(raw) == raw % 16
bt_block_count(raw) == (raw \div 16) % 512
with_block_shift(raw, s) == (raw - (raw % 16)) + (s % 16)
with_block_count(raw, n) == (raw - 16 * ((raw \div 16) % 512)) + 16 * (n % 512)

(***************************************************************************)
(* Little-endian views of the receive buffer (bytemuck::from_bytes on the  *)
(* packed structs; the host is little-endian).                             *)
(***************************************************************************)
le16(b, i) == b[i] + 256 * b[i + 1]
le32(b, i) == b[i] + 256 * b[i + 1] + 65536 * b[i + 2] + 16777216 * b[i + 3]

buf_header(b) == le16(b, 1)
buf_sector_nr(b) == le32(b, 3)
buf_sector_count(b) == le16(b, 7)
buf_block_type(b) == le32(b, 3)

\* recv_from overwrites the first Len(d) bytes of buf and leaves the rest.
recv_from(b, d) == [i \in 1..Len(b) |-> IF i <= Len(d) THEN d[i] ELSE b[i]]

(***************************************************************************)
(* vexfat.rs: the block device.  block_device is the VexFat struct; its    *)
(* field position is the cursor of the wrapped VirtualExFatBlockDevice and *)
(* dirty the byte ranges whose content no longer is the synthesized image. *)
(***************************************************************************)
BYTES_PER_SECTOR_SHIFT == 9
sectors_per_cluster_shift == 11

Pow2(k) == 2 ^ k

sector_size(bd) == Pow2(BYTES_PER_SECTOR_SHIFT)
sector_count(bd) == bd.sector_count

\* The Self { .. } literal that ends VexFat::new, for an image of cluster_count
\* clusters: the block parameters start at zero.
VexFatNew(cluster_count) ==
    [ sector_count      |-> cluster_count * Pow2(sectors_per_cluster_shift),
      block_shift       |-> 0,
      block_size        |-> 0,
      blocks_per_packet |-> 0,
      blocks_per_socket |-> 0,
      position          |-> 0,
      dirty             |-> {} ]

\* VirtualExFatBlockDevice::seek(SeekFrom::Start(offset)): fails only for a
\* sector at or past the end of the volume.
VexSeek(bd, offset) ==
    IF offset < sector_count(bd) * sector_size(bd)
    THEN [ok |-> TRUE, bd |-> [bd EXCEPT !.position = offset]]
    ELSE [ok |-> FALSE, bd |-> bd]

\* The bytes of the volume in [off, off + len): the synthesized image, except
\* where a range of dirty overlaps.
VolumeBytes(bd, off, len) ==
    [ zero    |-> FALSE,
      off     |-> off,
      len     |-> len,
      patched |-> {r \in bd.dirty : r.off < off + len /\ off < r.off + r.len} ]

ZeroBytes(len) == [zero |-> TRUE, off |-> 0, len |-> len, patched |-> {}]

\* read_exact(buf) on the device: fails when the read runs past the end of the
\* volume, else yields the bytes at the cursor and advances it.
VexReadExact(bd, len) ==
    IF bd.position + len <= sector_count(bd) * sector_size(bd)
    THEN [ok |-> TRUE, data |-> VolumeBytes(bd, bd.position, len),
          bd |-> [bd EXCEPT !.position = bd.position + len]]
    ELSE [ok |-> FALSE, data |-> ZeroBytes(len), bd |-> bd]

seek(bd, sector) == VexSeek(bd, sector * sector_size(bd))

read(bd, len) == VexReadExact(bd, len)

\* a write that stores the bytes at the cursor, as BlockDevice::write of the
\* file-backed server does
write_through(bd, len) ==
    [ok |-> TRUE,
     bd |-> [bd EXCEPT !.dirty = @ \cup {[off |-> bd.position, len |-> len]},
                       !.position = @ + len]]

\* VexFat::write ignores its argument and returns Ok(()).
write(bd, len) == [ok |-> TRUE, bd |-> bd]

set_block_shift(bd, shift) ==
    IF shift = bd.block_shift
    THEN bd
    ELSE LET bs == Pow2(shift + 2) % U16
         IN  [bd EXCEPT !.block_shift       = shift,
                        !.block_size        = bs,
                        !.blocks_per_packet = RDMA_MAX_PAYLOAD \div bs,
                        !.blocks_per_socket = sector_size(bd) \div bs]

\* shift_for_sectors with the 256-byte blocks tried before the 512-byte ones
shift_for_sectors_256_first(sectors) ==
    LET size        == sectors * Pow2(BYTES_PER_SECTOR_SHIFT)
        packets_min == (size + 1440 - 1) \div 1440
        packets_128 == (size + 1408 - 1) \div 1408
        packets_256 == (size + 1280 - 1) \div 1280
        packets_512 == (size + 1024 - 1) \div 1024
    IN  IF packets_256 = packets_min THEN 6
        ELSE IF packets_512 = packets_min THEN 7
        ELSE IF packets_128 = packets_min THEN 5
        ELSE 3

\* The packet counts and the if/else chain of set_block_shift_sectors.
shift_for_sectors(sectors) ==
    LET size        == sectors * Pow2(BYTES_PER_SECTOR_SHIFT)
        packets_min == (size + 1440 - 1) \div 1440
        packets_128 == (size + 1408 - 1) \div 1408
        packets_256 == (size + 1280 - 1) \div 1280
        packets_512 == (size + 1024 - 1) \div 1024
    IN  IF packets_512 = packets_min THEN 7
        ELSE IF packets_256 = packets_min THEN 6
        ELSE IF packets_128 = packets_min THEN 5
        ELSE 3

set_block_shift_sectors(bd, sectors) == set_block_shift(bd, shift_for_sectors(sectors))

(***************************************************************************)
(* utils.rs and the geometry of VexFat::new.  The counters of VexFat::new  *)
(* are u64.  A u64 value is the record [pow, low] standing for             *)
(* 2^pow + low, or for low alone when pow = -1; low stays below 2^31 for   *)
(* the trees considered, and pow is -1 or at least 31.  The divisors and   *)
(* factors of VexFat::new are powers of two, b = 2^d with d below 31.      *)
(***************************************************************************)
u64(n) == [pow |-> -1, low |-> n]
u64_norm(pow, low) ==
    IF pow >= 0 /\ pow < 31 THEN [pow |-> -1, low |-> Pow2(pow) + low]
    ELSE [pow |-> pow, low |-> low]
Log2(b) == CHOOSE d \in 0..30 : Pow2(d) = b

\* a.sub(1).div(b).add(1) on u64: the subtraction underflows for a = 0.
unsigned_rounded_up_div(a, b, oc) ==
    LET d == Log2(b)
    IN  IF a.pow = -1 /\ a.low = 0
        THEN IF oc THEN [panicked |-> TRUE, value |-> u64(0)]
             ELSE [panicked |-> FALSE,
                   value |-> IF d = 0 THEN u64(0) ELSE u64_norm(64 - d, 0)]
        ELSE IF a.low = 0
        THEN [panicked |-> FALSE, value |-> u64_norm(a.pow - d, 0)]
        ELSE [panicked |-> FALSE,
              value |-> IF a.pow = -1
                        THEN u64(((a.low - 1) \div b) + 1)
                        ELSE u64_norm(a.pow - d, ((a.low - 1) \div b) + 1)]

\* a * b on u64, b a power of two
u64_mul(a, b, oc) ==
    LET d == Log2(b)
    IN  IF a.pow >= 0 /\ a.pow + d >= 64
        THEN [panicked |-> oc, value |-> u64(a.low * b)]
        ELSE [panicked |-> FALSE,
              value |-> [pow |-> IF a.pow = -1 THEN -1 ELSE a.pow + d, low |-> a.low * b]]

\* unsigned_rounded_up_div(a, b).mul(b)
unsigned_align_to(a, b, oc) ==
    LET q == unsigned_rounded_up_div(a, b, oc)
        m == u64_mul(q.value, b, oc)
    IN  [panicked |-> q.panicked \/ m.panicked, value |-> m.value]

\* The same two helpers for a type T of T_values values, T_values small (256
\* for u8): sub, add and mul panic on overflow when the build checks for it
\* and wrap when it does not.
unsigned_rounded_up_div_T(T_values, a, b, oc) ==
    IF a = 0
    THEN IF oc THEN [panicked |-> TRUE, value |-> 0]
         ELSE [panicked |-> FALSE, value |-> (((T_values - 1) \div b) + 1) % T_values]
    ELSE [panicked |-> FALSE, value |-> ((a - 1) \div b) + 1]

\* unsigned_align_to that rounds down
unsigned_align_to_T_down(T_values, a, b, oc) ==
    [panicked |-> FALSE, value |-> (a \div b) * b]

unsigned_align_to_T(T_values, a, b, oc) ==
    LET q == unsigned_rounded_up_div_T(T_values, a, b, oc)
        product == q.value * b
    IN  IF q.panicked \/ (oc /\ product >= T_values)
        THEN [panicked |-> TRUE, value |-> 0]
        ELSE [panicked |-> FALSE, value |-> product % T_values]

\* x as u32: the low 32 bits
as_u32(x) == x.low

\* vexfat.rs 94-102: cluster_count and sector_count of the image for a tree
\* of total_files_bytes bytes in total_files_count files and total_dirs_count
\* directories.
Geometry(total_files_bytes, total_files_count, total_dirs_count, oc) ==
    LET sector_size_        == Pow2(BYTES_PER_SECTOR_SHIFT)
        sectors_per_cluster == Pow2(sectors_per_cluster_shift)
        bytes_per_cluster   == sectors_per_cluster * sector_size_
        q   == unsigned_rounded_up_div(u64(total_files_bytes), bytes_per_cluster, oc)
        sum == [q.value EXCEPT !.low = @ + 3 * (total_dirs_count + total_files_count)]
        al  == unsigned_align_to(sum, 2, oc)
        sc  == u64_mul(al.value, sectors_per_cluster, oc)
    IN  [ panicked      |-> q.panicked \/ al.panicked \/ sc.panicked,
          cluster_count |-> al.value,
          sector_count  |-> sc.value ]

(***************************************************************************)
(* server.rs: the datagrams the handlers pass to send_to.  len is the      *)
(* length of the byte slice sent; fields a reply struct lacks are zero.    *)
(***************************************************************************)
\* InfoReply with the two u32 fields in the other order
InfoReply_count_first(to, header, ssize, scount) ==
    [ to |-> to, len |-> SizeOfInfoReply, header |-> header,
      sector_size |-> scount, sector_count |-> ssize,
      result |-> 0, block_type |-> 0, data |-> ZeroBytes(0) ]

InfoReply(to, header, ssize, scount) ==
    [ to |-> to, len |-> SizeOfInfoReply, header |-> header,
      sector_size |-> ssize, sector_count |-> scount,
      result |-> 0, block_type |-> 0, data |-> ZeroBytes(0) ]

Rdma(to, header, block_type, data) ==
    [ to |-> to, len |-> SizeOfHeader + SizeOfBlockType + data.len, header |-> header,
      sector_size |-> 0, sector_count |-> 0,
      result |-> 0, block_type |-> block_type, data |-> data ]

\* WriteReply addressed to the client that talked to the server first
WriteReply_to_first_client(to, header, result) ==
    [ to |-> "A", len |-> SizeOfWriteReply, header |-> header,
      sector_size |-> 0, sector_count |-> 0,
      result |-> result, block_type |-> 0, data |-> ZeroBytes(0) ]

WriteReply(to, header, result) ==
    [ to |-> to, len |-> SizeOfWriteReply, header |-> header,
      sector_size |-> 0, sector_count |-> 0,
      result |-> result, block_type |-> 0, data |-> ZeroBytes(0) ]

\* What a handler leaves behind: the device, the write session fields, the
\* datagrams it sent, and whether it panicked.
Outcome(bd, wsl, valid, out, panic) ==
    [ bd |-> bd, write_size_left |-> wsl, write_rdma_valid |-> valid,
      sent |-> out, panicked |-> panic ]

\* handle_cmd_info that also closes the write session, as the Idle /
\* WriteSessionOpen state machine of the design would have it
handle_cmd_info_aborts(bd, wsl, valid, req_header, a) ==
    LET header == with_command_pkt(
                      with_command_id(with_command(0, CmdInfoReply), command_id(req_header)), 1)
    IN  Outcome(bd, 0, FALSE,
                <<InfoReply(a, header, sector_size(bd), sector_count(bd))>>, FALSE)

\* handle_cmd_info that leaves command_id at 0 in the reply
handle_cmd_info_no_id(bd, wsl, valid, req_header, a) ==
    LET header == with_command_pkt(with_command(0, CmdInfoReply), 1)
    IN  Outcome(bd, wsl, valid,
                <<InfoReply(a, header, sector_size(bd), sector_count(bd))>>, FALSE)

handle_cmd_info(bd, wsl, valid, req_header, a) ==
    LET header == with_command_pkt(
                      with_command_id(with_command(0, CmdInfoReply), command_id(req_header)), 1)
    IN  Outcome(bd, wsl, valid,
                <<InfoReply(a, header, sector_size(bd), sector_count(bd))>>, FALSE)

\* the loop body that fills every packet, the last one too
read_iteration_full_packets(st, a, oc) ==
    LET bd          == st.bd
        block_count == bd.blocks_per_packet
        bt    == with_block_count(st.block_type, block_count)
        size  == block_count * bd.block_size
        r     == IF st.seeked THEN read(bd, size)
                              ELSE [ok |-> FALSE, data |-> ZeroBytes(size), bd |-> bd]
        data  == IF r.ok THEN r.data ELSE ZeroBytes(size)
        next_cmd_pkt == command_pkt(st.header) + 1
    IN  [ bd          |-> r.bd,
          seeked      |-> st.seeked,
          blocks_left |-> IF st.blocks_left > block_count
                          THEN st.blocks_left - block_count ELSE 0,
          header      |-> with_command_pkt(st.header, next_cmd_pkt % U8),
          block_type  |-> bt,
          sent        |-> Append(st.sent, Rdma(a, st.header, bt, data)),
          panicked    |-> oc /\ next_cmd_pkt >= U8 ]

\* One iteration of the while loop of handle_cmd_read.  st holds the loop's
\* variables: the device, seeked, blocks_left, reply.header, reply.block_type,
\* the datagrams sent so far, and whether the iteration panicked.
read_iteration(st, a, oc) ==
    LET bd          == st.bd
        block_count == IF st.blocks_left > bd.blocks_per_packet
                       THEN bd.blocks_per_packet
                       ELSE st.blocks_left
        bt    == with_block_count(st.block_type, block_count)
        size  == block_count * bd.block_size
        r     == IF st.seeked THEN read(bd, size)
                              ELSE [ok |-> FALSE, data |-> ZeroBytes(size), bd |-> bd]
        data  == IF r.ok THEN r.data ELSE ZeroBytes(size)
        next_cmd_pkt == command_pkt(st.header) + 1
    IN  [ bd          |-> r.bd,
          seeked      |-> st.seeked,
          blocks_left |-> st.blocks_left - block_count,
          header      |-> with_command_pkt(st.header, next_cmd_pkt % U8),
          block_type  |-> bt,
          sent        |-> Append(st.sent, Rdma(a, st.header, bt, data)),
          panicked    |-> oc /\ next_cmd_pkt >= U8 ]

\* while blocks_left > 0 { .. }: the iterations run one after the other until
\* no block is left or one panics.  fuel bounds their number (every iteration
\* takes at least one block, so blocks_left is enough); the run is split in
\* halves only to keep the evaluation shallow.
RECURSIVE read_loop(_, _, _, _)
read_loop(st, a, oc, fuel) ==
    IF st.blocks_left = 0 \/ st.panicked \/ fuel = 0 THEN st
    ELSE IF fuel = 1 THEN read_iteration(st, a, oc)
    ELSE read_loop(read_loop(st, a, oc, fuel \div 2), a, oc, fuel - (fuel \div 2))

\* handle_cmd_read that gives up when the seek fails
handle_cmd_read_returns_on_seek_error(bd, wsl, valid, req_header, sector_nr, sectors, a, oc) ==
    LET bd1    == set_block_shift_sectors(bd, sectors)
        header == with_command_pkt(
                      with_command_id(with_command(0, CmdReadRdma), command_id(req_header)), 1)
        bt     == with_block_shift(0, bd1.block_shift)
        sk     == seek(bd1, sector_nr)
        blocks == sectors * sk.bd.blocks_per_socket
    IN  IF ~sk.ok
        THEN Outcome(sk.bd, wsl, valid, <<>>, FALSE)
        ELSE IF blocks >= U16 /\ oc
        THEN Outcome(sk.bd, wsl, valid, <<>>, TRUE)
        ELSE LET st == [ bd |-> sk.bd, seeked |-> sk.ok, blocks_left |-> blocks % U16,
                         header |-> header, block_type |-> bt, sent |-> <<>>,
                         panicked |-> FALSE ]
                 r  == read_loop(st, a, oc, st.blocks_left)
             IN  Outcome(r.bd, wsl, valid, r.sent, r.panicked)

handle_cmd_read(bd, wsl, valid, req_header, sector_nr, sectors, a, oc) ==
    LET bd1    == set_block_shift_sectors(bd, sectors)
        header == with_command_pkt(
                      with_command_id(with_command(0, CmdReadRdma), command_id(req_header)), 1)
        bt     == with_block_shift(0, bd1.block_shift)
        sk     == seek(bd1, sector_nr)
        blocks == sectors * sk.bd.blocks_per_socket
    IN  IF blocks >= U16 /\ oc
        THEN Outcome(sk.bd, wsl, valid, <<>>, TRUE)
        ELSE LET st == [ bd |-> sk.bd, seeked |-> sk.ok, blocks_left |-> blocks % U16,
                         header |-> header, block_type |-> bt, sent |-> <<>>,
                         panicked |-> FALSE ]
                 r  == read_loop(st, a, oc, st.blocks_left)
             IN  Outcome(r.bd, wsl, valid, r.sent, r.panicked)

\* handle_cmd_write that adds the new byte count to what the open session has left
handle_cmd_write_adds(bd, wsl, valid, sector_nr, sectors) ==
    LET sk == seek(bd, sector_nr)
    IN  Outcome(sk.bd, wsl + sectors * sector_size(bd), sk.ok, <<>>, FALSE)

\* handle_cmd_write that tunes the block shift for the transfer, as
\* handle_cmd_read does
handle_cmd_write_tunes(bd, wsl, valid, sector_nr, sectors) ==
    LET sk == seek(set_block_shift_sectors(bd, sectors), sector_nr)
    IN  Outcome(sk.bd, sectors * sector_size(bd), sk.ok, <<>>, FALSE)

handle_cmd_write(bd, wsl, valid, sector_nr, sectors) ==
    LET sk == seek(bd, sector_nr)
    IN  Outcome(sk.bd, sectors * sector_size(bd), sk.ok, <<>>, FALSE)

\* BlockType::blocks_size: block_count * (1 << (block_shift + 2)) in u16.
blocks_size(block_type, oc) ==
    LET block_count == bt_block_count(block_type)
        sh          == bt_block_shift(block_type) + 2
        product     == block_count * Pow2(sh % 16)
    IN  IF oc /\ (sh >= 16 \/ product >= U16)
        THEN [panicked |-> TRUE, size |-> 0]
        ELSE [panicked |-> FALSE, size |-> product % U16]

\* handle_cmd_write_rdma that numbers the reply command_pkt + 1 of the request
handle_cmd_write_rdma_next_pkt(bd, wsl, valid, req_header, block_type, a, oc) ==
    LET bs == blocks_size(block_type, oc)
    IN  IF bs.panicked \/ bs.size > RDMA_MAX_PAYLOAD
        THEN Outcome(bd, wsl, valid, <<>>, TRUE)
        ELSE LET bd1      == IF valid THEN write(bd, bs.size).bd ELSE bd
                 new_size == IF wsl >= bs.size THEN wsl - bs.size ELSE 0
                 header   == with_command_pkt(
                                 with_command_id(with_command(0, CmdWriteDone),
                                                 command_id(req_header)),
                                 command_pkt(req_header) + 1)
             IN  Outcome(bd1, new_size, valid,
                         IF new_size = 0 THEN <<WriteReply(a, header, 0)>> ELSE <<>>,
                         FALSE)

handle_cmd_write_rdma(bd, wsl, valid, req_header, block_type, a, oc) ==
    LET bs == blocks_size(block_type, oc)
    IN  IF bs.panicked \/ bs.size > RDMA_MAX_PAYLOAD
        THEN Outcome(bd, wsl, valid, <<>>, TRUE)
        ELSE LET bd1      == IF valid THEN write(bd, bs.size).bd ELSE bd
                 new_size == IF wsl >= bs.size THEN wsl - bs.size ELSE 0
                 header   == with_command_pkt(
                                 with_command_id(with_command(0, CmdWriteDone),
                                                 command_id(req_header)),
                                 command_id(req_header) + 1)
             IN  Outcome(bd1, new_size, valid,
                         IF new_size = 0 THEN <<WriteReply(a, header, 0)>> ELSE <<>>,
                         FALSE)

(***************************************************************************)
(* The datagrams clients send.  Only the first SizeOfReadWriteRequest      *)
(* bytes of a datagram are modelled: the handlers decode nothing past      *)
(* them, and the WriteRdma payload behind them is only handed to write.    *)
(***************************************************************************)
MaxWriteSectors == 3

NoAddr == "none"
Addrs == {"A", "B"}
ClusterCounts == {32}
\* sector 100 lies inside the volume, 65535 is its last sector, 65536 is past it
SectorNrs == {100, 65535, 65536}
WriteSectorNrs == {100, 65536}
\* sector counts that select each of the shifts 7, 6, 5 and 3
ReadSectorCounts == {0, 1, 3, 5, 11, 14}
\* 718 sectors take 256 packets; 4096 sectors are 65536 blocks of 32 bytes
BulkSectorCounts == {718, 4096}
\* <<block_shift, block_count>> of the WriteRdma packets
RdmaBlockTypes == {<<5, 4>>, <<7, 2>>, <<5, 0>>, <<7, 3>>, <<14, 256>>, <<6, 256>>}
OtherCommands == {CmdInfoReply, CmdReadRdma, CmdWriteDone, 7, 31}

Bytes16(x) == <<x % 256, (x \div 256) % 256>>
Bytes32(x) == <<x % 256, (x \div 256) % 256, (x \div 65536) % 256, (x \div 16777216) % 256>>

MkHeader(c, i, p) == with_command_pkt(with_command_id(with_command(0, c), i), p)
MkBlockType(s, n) == with_block_count(with_block_shift(0, s), n)

InfoDatagram(i) == Bytes16(MkHeader(CmdInfo, i, 0))
ReadWriteDatagram(c, i, nr, n) == Bytes16(MkHeader(c, i, 0)) \o Bytes32(nr) \o Bytes16(n)
WriteRdmaDatagram(i, s, n) ==
    Bytes16(MkHeader(CmdWriteRdma, i, 0)) \o Bytes32(MkBlockType(s, n)) \o <<0, 0>>

WriteDatagrams ==
    {ReadWriteDatagram(CmdWrite, 0, nr, n) : nr \in WriteSectorNrs, n \in 0..MaxWriteSectors}
WriteRdmaDatagrams == {WriteRdmaDatagram(0, t[1], t[2]) : t \in RdmaBlockTypes}
OtherDatagrams == {Bytes16(MkHeader(c, 0, 0)) : c \in OtherCommands}

From(a, datagrams) == {<<a, d>> : d \in datagrams}

\* The traffic of two clients that mix all commands on short transfers:
\* A sends with command_id 0, B with command_id 7.
Datagrams ==
    From("A", {InfoDatagram(0)} \cup WriteDatagrams \cup WriteRdmaDatagrams
              \cup OtherDatagrams
              \cup { ReadWriteDatagram(CmdRead, 0, 100, 1),
                     ReadWriteDatagram(CmdRead, 0, 100, 5),
                     ReadWriteDatagram(CmdRead, 0, 65535, 3),
                     ReadWriteDatagram(CmdRead, 0, 65536, 1) })
    \cup From("B", { InfoDatagram(7), ReadWriteDatagram(CmdRead, 7, 100, 3),
                     WriteRdmaDatagram(7, 5, 4) })

\* The traffic of clients that mostly read, short and long transfers alike.
BulkDatagrams ==
    From("A", {ReadWriteDatagram(CmdRead, 0, nr, n) :
                  nr \in SectorNrs, n \in ReadSectorCounts}
              \cup { InfoDatagram(0), ReadWriteDatagram(CmdWrite, 0, 100, 1),
                     Bytes16(MkHeader(CmdInfoReply, 0, 0)), Bytes16(MkHeader(31, 0, 0)) })
    \cup From("B", {ReadWriteDatagram(CmdRead, 7, 100, n) : n \in BulkSectorCounts}
                   \cup {WriteRdmaDatagram(7, 5, 4)})

\* The traffic of clients that only ask for the size of the device.
InfoDatagrams == From("A", {InfoDatagram(0)}) \cup From("B", {InfoDatagram(7)})

\* The traffic of clients that also send datagrams cut after the header, and
\* datagrams with a code no handler takes followed by six more bytes.
ShortDatagrams ==
    From("A", { Bytes16(MkHeader(CmdRead, 0, 0)),
                Bytes16(MkHeader(CmdWrite, 0, 0)),
                Bytes16(MkHeader(CmdWriteRdma, 0, 0)),
                Bytes16(MkHeader(31, 0, 0)),
                InfoDatagram(0),
                ReadWriteDatagram(CmdInfoReply, 0, 100, 3),
                ReadWriteDatagram(CmdInfoReply, 0, 0, 0),
                ReadWriteDatagram(CmdRead, 0, 100, 1),
                ReadWriteDatagram(CmdWrite, 0, 100, 2),
                WriteRdmaDatagram(0, 5, 4) })
    \cup From("B", { InfoDatagram(7), Bytes16(MkHeader(CmdRead, 7, 0)) })

\* the <<address, datagram>> pairs the clients may send
Clients(t) ==
    CASE t = "mixed" -> Datagrams
      [] t = "bulk"  -> BulkDatagrams
      [] t = "info"  -> InfoDatagrams
      [] t = "short" -> ShortDatagrams
      [] OTHER       -> {}

Min(a, b) == IF a <= b THEN a ELSE b

(***************************************************************************)
(* Server::new and Server::run                                             *)
(***************************************************************************)
\* Server::new without the call of set_block_shift
ServerNew_untuned(cluster_count) ==
    [ block_device     |-> VexFatNew(cluster_count),
      write_size_left  |-> 0,
      write_rdma_valid |-> FALSE ]

ServerNew(cluster_count) ==
    [ block_device     |-> set_block_shift(VexFatNew(cluster_count), 5),
      write_size_left  |-> 0,
      write_rdma_valid |-> FALSE ]

\* the root directory the servers of Spec, SpecBulk and SpecTune serve: the
\* nine directories VexFat::new creates and one file of 2 MiB
DefaultTree ==
    [ total_files_bytes |-> 2 * 1048576, total_files_count |-> 1, total_dirs_count |-> 9,
      cluster_count |-> u64(0) ]

NoCall == [fn |-> "none", a |-> 0, b |-> 1, panicked |-> FALSE, value |-> 0]
NoCodec == [kind |-> "none", fields |-> <<>>, bytes |-> <<>>, back |-> <<>>]

InitServer ==
    /\ overflow_checks \in BOOLEAN
    /\ panicked = FALSE
    /\ buf = [i \in 1..SizeOfReadWriteRequest |-> 0]
    /\ addr = NoAddr
    /\ dispatched = "none"
    /\ \E cc \in ClusterCounts :
          LET server == ServerNew(cc)
              g      == Geometry(DefaultTree.total_files_bytes, DefaultTree.total_files_count,
                                 DefaultTree.total_dirs_count, overflow_checks)
          IN  /\ ~g.panicked /\ as_u32(g.cluster_count) = cc
              /\ tree = [DefaultTree EXCEPT !.cluster_count = g.cluster_count]
              /\ block_device = server.block_device
              /\ write_size_left = server.write_size_left
              /\ write_rdma_valid = server.write_rdma_valid
    /\ sent = <<>>
    /\ session = [total |-> 0, recv |-> 0, open_before |-> FALSE]
    /\ codec = NoCodec
    /\ call = NoCall

\* the loop body where a datagram that no handler takes closes the write session
Handled_closing_session(b, a, arm, o) ==
    /\ buf' = b
    /\ addr' = a
    /\ dispatched' = arm
    /\ block_device' = o.bd
    /\ write_size_left' = IF arm \in {"Unexpected", "Unknown"} THEN 0 ELSE o.write_size_left
    /\ write_rdma_valid' = o.write_rdma_valid
    /\ sent' = o.sent
    /\ panicked' = o.panicked
    /\ UNCHANGED <<overflow_checks, traffic, tree, codec, call>>

\* One turn of the loop of run: the datagram is in b, it came from a, and the
\* arm of the match it was dispatched to left outcome o.
Handled(b, a, arm, o) ==
    /\ buf' = b
    /\ addr' = a
    /\ dispatched' = arm
    /\ block_device' = o.bd
    /\ write_size_left' = o.write_size_left
    /\ write_rdma_valid' = o.write_rdma_valid
    /\ sent' = o.sent
    /\ panicked' = o.panicked
    /\ UNCHANGED <<overflow_checks, traffic, tree, codec, call>>

RecvInfo ==
    \E c \in Clients(traffic) :
        LET a == c[1]
            b == recv_from(buf, c[2])
        IN  /\ ~panicked
            /\ command(buf_header(b)) = CmdInfo
            /\ Handled(b, a, "Info", handle_cmd_info(block_device, write_size_left,
                                             write_rdma_valid, buf_header(b), a))
            /\ session' = [session EXCEPT !.open_before = write_size_left > 0]

RecvRead ==
    \E c \in Clients(traffic) :
        LET a == c[1]
            b == recv_from(buf, c[2])
        IN  /\ ~panicked
            /\ command(buf_header(b)) = CmdRead
            /\ Handled(b, a, "Read", handle_cmd_read(block_device, write_size_left,
                                             write_rdma_valid, buf_header(b),
                                             buf_sector_nr(b), buf_sector_count(b),
                                             a, overflow_checks))
            /\ session' = [session EXCEPT !.open_before = write_size_left > 0]

RecvWrite ==
    \E c \in Clients(traffic) :
        LET a == c[1]
            b == recv_from(buf, c[2])
        IN  /\ ~panicked
            /\ command(buf_header(b)) = CmdWrite
            /\ Handled(b, a, "Write", handle_cmd_write(block_device, write_size_left,
                                              write_rdma_valid,
                                              buf_sector_nr(b), buf_sector_count(b)))
            /\ session' = [total |-> buf_sector_count(b) * Pow2(BYTES_PER_SECTOR_SHIFT),
                           recv  |-> 0,
                           open_before |-> write_size_left > 0]

RecvWriteRdma ==
    \E c \in Clients(traffic) :
        LET a  == c[1]
            b  == recv_from(buf, c[2])
            bt == buf_block_type(b)
        IN  /\ ~panicked
            /\ command(buf_header(b)) = CmdWriteRdma
            /\ Handled(b, a, "WriteRdma", handle_cmd_write_rdma(block_device, write_size_left,
                                                   write_rdma_valid, buf_header(b),
                                                   bt, a, overflow_checks))
            /\ session' = [session EXCEPT
                   !.recv = Min(session.total,
                                @ + bt_block_count(bt) * Pow2(bt_block_shift(bt) + 2)),
                   !.open_before = write_size_left > 0]

\* Codes 1, 3 and 6 decode to a Command no arm handles; codes 7..31 do not
\* decode.  Either way run only prints a line.
RecvUnexpected ==
    \E c \in Clients(traffic) :
        LET a == c[1]
            b == recv_from(buf, c[2])
        IN  /\ ~panicked
            /\ command(buf_header(b)) \in {CmdInfoReply, CmdReadRdma, CmdWriteDone}
            /\ Handled(b, a, "Unexpected", Outcome(block_device, write_size_left,
                                     write_rdma_valid, <<>>, FALSE))
            /\ session' = [session EXCEPT !.open_before = write_size_left > 0]

RecvUnknown ==
    \E c \in Clients(traffic) :
        LET a == c[1]
            b == recv_from(buf, c[2])
        IN  /\ ~panicked
            /\ ~KnownCommand(command(buf_header(b)))
            /\ Handled(b, a, "Unknown", Outcome(block_device, write_size_left,
                                     write_rdma_valid, <<>>, FALSE))
            /\ session' = [session EXCEPT !.open_before = write_size_left > 0]

Next ==
    \/ RecvInfo
    \/ RecvRead
    \/ RecvWrite
    \/ RecvWriteRdma
    \/ RecvUnexpected
    \/ RecvUnknown

Init == InitServer /\ traffic = "mixed"
InitBulk == InitServer /\ traffic = "bulk"
InitShort == InitServer /\ traffic = "short"

Spec == Init /\ [][Next]_vars
SpecBulk == InitBulk /\ [][Next]_vars
SpecShort == InitShort /\ [][Next]_vars

\* The match of run on its own: what the arm taken for the buffer content b,
\* received from a, leaves behind.
dispatch(b, a, bd, wsl, valid, oc) ==
    LET cmd == command(buf_header(b))
    IN  CASE cmd = CmdInfo      -> handle_cmd_info(bd, wsl, valid, buf_header(b), a)
          [] cmd = CmdRead      -> handle_cmd_read(bd, wsl, valid, buf_header(b),
                                                   buf_sector_nr(b), buf_sector_count(b),
                                                   a, oc)
          [] cmd = CmdWrite     -> handle_cmd_write(bd, wsl, valid,
                                                    buf_sector_nr(b), buf_sector_count(b))
          [] cmd = CmdWriteRdma -> handle_cmd_write_rdma(bd, wsl, valid, buf_header(b),
                                                         buf_block_type(b), a, oc)
          [] OTHER              -> Outcome(bd, wsl, valid, <<>>, FALSE)

(***************************************************************************)
(* The block-shift tuning on its own: a fresh server tunes for one sector  *)
(* count, any value of the u16 field.                                      *)
(***************************************************************************)
Tune ==
    /\ dispatched = "none"
    /\ \E n \in 0..(U16 - 1) :
        LET b == recv_from(buf, ReadWriteDatagram(CmdRead, 0, 0, n))
        IN  /\ buf' = b
            /\ dispatched' = "Tune"
            /\ block_device' = set_block_shift_sectors(block_device, buf_sector_count(b))
            /\ UNCHANGED <<overflow_checks, panicked, traffic, addr, write_size_left,
                           write_rdma_valid, sent, session, tree, codec, call>>

InitTune == InitServer /\ traffic = "none"
NextTune == Tune
SpecTune == InitTune /\ [][NextTune]_vars

(***************************************************************************)
(* Startup on its own: VexFat::new sizes the image for the tree it scanned *)
(* and Server::new wraps it; then clients ask for the size.                *)
(***************************************************************************)
MiB == Pow2(20)
TreeBytes == {0, 1, MiB - 1, MiB, MiB + 1, 3 * MiB, 5 * MiB + 7}
TreeFiles == 0..3
\* VexFat::new creates the nine OPL directories before it walks the tree
TreeDirs == 9..11
Trees ==
    { [ total_files_bytes |-> b, total_files_count |-> f, total_dirs_count |-> d,
        cluster_count |-> u64(0) ] :
      b \in TreeBytes, f \in TreeFiles, d \in TreeDirs }

\* before VexFat::new has run there is no device
NoDevice == VexFatNew(0)

New ==
    /\ dispatched = "none"
    /\ LET g == Geometry(tree.total_files_bytes, tree.total_files_count,
                         tree.total_dirs_count, overflow_checks)
           server == ServerNew(as_u32(g.cluster_count))
       IN  /\ panicked' = g.panicked
           /\ tree' = IF g.panicked THEN tree
                      ELSE [tree EXCEPT !.cluster_count = g.cluster_count]
           /\ block_device' = IF g.panicked THEN block_device
                              ELSE [server.block_device EXCEPT
                                       !.sector_count = as_u32(g.sector_count)]
    /\ dispatched' = "New"
    /\ UNCHANGED <<overflow_checks, traffic, buf, addr, write_size_left,
                   write_rdma_valid, sent, session, codec, call>>

InitScan ==
    /\ overflow_checks \in BOOLEAN
    /\ panicked = FALSE
    /\ traffic = "info"
    /\ buf = [i \in 1..SizeOfReadWriteRequest |-> 0]
    /\ addr = NoAddr
    /\ dispatched = "none"
    /\ tree \in {t \in Trees : t.total_files_bytes > 0 => t.total_files_count > 0}
    /\ block_device = NoDevice
    /\ write_size_left = 0
    /\ write_rdma_valid = FALSE
    /\ sent = <<>>
    /\ session = [total |-> 0, recv |-> 0, open_before |-> FALSE]
    /\ codec = NoCodec
    /\ call = NoCall

NextScan ==
    \/ New
    \/ dispatched # "none" /\ RecvInfo

SpecScan == InitScan /\ [][NextScan]_vars

(***************************************************************************)
(* The bitfields on their own: a Header or a BlockType is built from its   *)
(* fields with the with_ methods, laid out as bytes and read back with the *)
(* accessors (Pack..); or bytes are read with the accessors and a value is *)
(* built again from the fields read (Parse..).                             *)
(***************************************************************************)
PackHeader ==
    /\ codec.kind = "none"
    /\ \E c \in CmdInfo..CmdWriteDone, i \in 0..7, p \in 0..(U8 - 1) :
          LET raw   == with_command_pkt(with_command_id(with_command(0, c), i), p)
              bytes == Bytes16(raw)
              h     == le16(bytes, 1)
          IN  codec' = [ kind |-> "PackHeader", fields |-> <<c, i, p>>, bytes |-> bytes,
                         back |-> <<command(h), command_id(h), command_pkt(h)>> ]
    /\ UNCHANGED <<overflow_checks, panicked, traffic, buf, addr, dispatched, block_device,
                   write_size_left, write_rdma_valid, sent, session, tree, call>>

ParseHeader ==
    /\ codec.kind = "none"
    /\ \E b1 \in 0..(U8 - 1), b2 \in 0..(U8 - 1) :
          LET h   == le16(<<b1, b2>>, 1)
              raw == with_command_pkt(
                         with_command_id(with_command(0, command(h)), command_id(h)),
                         command_pkt(h))
          IN  /\ KnownCommand(command(h))
              /\ codec' = [ kind |-> "ParseHeader",
                            fields |-> <<command(h), command_id(h), command_pkt(h)>>,
                            bytes |-> <<b1, b2>>, back |-> Bytes16(raw) ]
    /\ UNCHANGED <<overflow_checks, panicked, traffic, buf, addr, dispatched, block_device,
                   write_size_left, write_rdma_valid, sent, session, tree, call>>

PackBlockType ==
    /\ codec.kind = "none"
    /\ \E sh \in 0..15, n \in 0..511 :
          LET raw   == with_block_count(with_block_shift(0, sh), n)
              bytes == Bytes32(raw)
              bt    == le32(bytes, 1)
          IN  codec' = [ kind |-> "PackBlockType", fields |-> <<sh, n>>, bytes |-> bytes,
                         back |-> <<bt_block_shift(bt), bt_block_count(bt)>> ]
    /\ UNCHANGED <<overflow_checks, panicked, traffic, buf, addr, dispatched, block_device,
                   write_size_left, write_rdma_valid, sent, session, tree, call>>

\* bytes whose spare bits 13..=31 are zero, and two where a spare bit is set
BlockTypeWords == 0..8191 \cup {8192 + 5, 65536 + 16 * 3 + 7}

ParseBlockType ==
    /\ codec.kind = "none"
    /\ \E w \in BlockTypeWords :
          LET bytes == Bytes32(w)
              bt    == le32(bytes, 1)
              raw   == with_block_count(with_block_shift(0, bt_block_shift(bt)),
                                        bt_block_count(bt))
          IN  codec' = [ kind |-> "ParseBlockType",
                         fields |-> <<bt_block_shift(bt), bt_block_count(bt)>>,
                         bytes |-> bytes, back |-> Bytes32(raw) ]
    /\ UNCHANGED <<overflow_checks, panicked, traffic, buf, addr, dispatched, block_device,
                   write_size_left, write_rdma_valid, sent, session, tree, call>>

InitCodec == InitServer /\ traffic = "none"

NextCodec ==
    \/ PackHeader
    \/ ParseHeader
    \/ PackBlockType
    \/ ParseBlockType

SpecCodec == InitCodec /\ [][NextCodec]_vars

(***************************************************************************)
(* utils.rs on its own: one call of a helper, T = u8.                      *)
(***************************************************************************)
Dividends == 0..(U8 - 1)
Divisors == 1..16

RoundedUpDiv ==
    /\ call.fn = "none"
    /\ \E a \in Dividends, b \in Divisors :
          LET r == unsigned_rounded_up_div_T(U8, a, b, overflow_checks)
          IN  /\ call' = [ fn |-> "unsigned_rounded_up_div", a |-> a, b |-> b,
                           panicked |-> r.panicked, value |-> r.value ]
              /\ panicked' = r.panicked
    /\ UNCHANGED <<overflow_checks, traffic, buf, addr, dispatched, block_device,
                   write_size_left, write_rdma_valid, sent, session, tree, codec>>

AlignTo ==
    /\ call.fn = "none"
    /\ \E a \in Dividends, b \in Divisors :
          LET r == unsigned_align_to_T(U8, a, b, overflow_checks)
          IN  /\ call' = [ fn |-> "unsigned_align_to", a |-> a, b |-> b,
                           panicked |-> r.panicked, value |-> r.value ]
              /\ panicked' = r.panicked
    /\ UNCHANGED <<overflow_checks, traffic, buf, addr, dispatched, block_device,
                   write_size_left, write_rdma_valid, sent, session, tree, codec>>

InitUtils == InitServer /\ traffic = "none"

NextUtils ==
    \/ RoundedUpDiv
    \/ AlignTo

SpecUtils == InitUtils /\ [][NextUtils]_vars

(***************************************************************************)
(* Helpers of the properties                                               *)
(***************************************************************************)
CeilDiv(x, y) == IF x % y = 0 THEN x \div y ELSE (x \div y) + 1

\* the request decoded from the receive buffer
ReqId == command_id(buf_header(buf))
ReqSectorNr == buf_sector_nr(buf)
ReqSectors == buf_sector_count(buf)
ReqBytes == ReqSectors * 512

\* the sectors a Read or Write names lie inside the volume, so that the seek
\* and every read of the burst succeed
RangeInVolume == ReqSectorNr + ReqSectors <= block_device.sector_count

IsRdma(p) == command(p.header) = CmdReadRdma
IsWriteDone(p) == command(p.header) = CmdWriteDone

\* The payloads of the burst are the device bytes from byte `from` on, one
\* after the other, and together they are `bytes` bytes.
PayloadCovers(burst, from, bytes) ==
    IF Len(burst) = 0 THEN bytes = 0
    ELSE /\ \A k \in 1..Len(burst) :
               /\ IsRdma(burst[k])
               /\ ~burst[k].data.zero
               /\ burst[k].data.patched = {}
               /\ burst[k].len = SizeOfHeader + SizeOfBlockType + burst[k].data.len
         /\ burst[1].data.off = from
         /\ \A k \in 1..(Len(burst) - 1) :
               burst[k + 1].data.off = burst[k].data.off + burst[k].data.len
         /\ burst[Len(burst)].data.off + burst[Len(burst)].data.len = from + bytes

(***************************************************************************)
(* C1.  For every Read of n sectors (n any u16 value) whose seek and reads *)
(* succeed, the payloads of the RDMA packets sent for it are n * 512 bytes *)
(* in all and, in the order sent, are the device bytes from byte           *)
(* sector_nr * 512 on.                                                     *)
(* Fails: sector_count * blocks_per_socket is a u16 product.  For 4096     *)
(* sectors at shift 3 it is 65536: the release build wraps it to 0 and     *)
(* sends nothing, the debug build panics.                                  *)
(***************************************************************************)
C1_ReadPayloadIsRequestedBytes ==
    (dispatched = "Read" /\ RangeInVolume)
        => PayloadCovers(sent, ReqSectorNr * 512, ReqBytes)

(***************************************************************************)
(* C2.  For every sector count, the shift set_block_shift_sectors selects  *)
(* is one of 7, 6, 5, 3 (payload caps 1024, 1280, 1408, 1440), needs the   *)
(* least ceil(size / cap) of the four, and is the largest shift among      *)
(* those needing the least.                                                *)
(***************************************************************************)
CandidateShifts == {7, 6, 5, 3}
PayloadCap(s) == CASE s = 7 -> 1024 [] s = 6 -> 1280 [] s = 5 -> 1408 [] s = 3 -> 1440
PacketsAtCap(bytes, s) == CeilDiv(bytes, PayloadCap(s))

C2_ShiftMinimizesAmongCandidates ==
    dispatched = "Tune" =>
        LET s == block_device.block_shift
        IN  /\ s \in CandidateShifts
            /\ \A c \in CandidateShifts :
                  /\ PacketsAtCap(ReqBytes, s) <= PacketsAtCap(ReqBytes, c)
                  /\ PacketsAtCap(ReqBytes, c) = PacketsAtCap(ReqBytes, s) => c <= s

C2_SixSectorsPickShift7 ==
    dispatched = "Tune" /\ ReqSectors = 6 /\ block_device.block_shift = 7

(***************************************************************************)
(* C3.  For every sector count n, no block shift 0..7 (block size          *)
(* 1 << (s + 2), at most floor(1466 / block size) blocks in a packet)      *)
(* covers n * 512 bytes in fewer packets than the selected shift.          *)
(* Fails: shifts 0 and 1 carry 1464 bytes a packet, more than the 1440 of  *)
(* shift 3 the selection takes for the minimum.                            *)
(***************************************************************************)
PacketsAtShift(bytes, s) ==
    LET bsize == 2 ^ (s + 2)
    IN  CeilDiv(bytes \div bsize, 1466 \div bsize)

C3_NoShiftNeedsFewerPackets ==
    dispatched = "Tune" =>
        \A s \in 0..7 :
            PacketsAtShift(ReqBytes, s) >= PacketsAtShift(ReqBytes, block_device.block_shift)

(***************************************************************************)
(* C4.  A Write of n sectors sets write_size_left to n * 512 and           *)
(* write_rdma_valid to whether the seek to sector_nr succeeded, and sends  *)
(* nothing; also when a session is still open, whose remaining count is    *)
(* overwritten.                                                            *)
(***************************************************************************)
C4_WriteOpensSession ==
    dispatched = "Write" =>
        /\ write_size_left = ReqSectors * 512
        /\ write_rdma_valid = (ReqSectorNr < block_device.sector_count)
        /\ sent = <<>>

C4_WriteOverOpenSession ==
    /\ dispatched = "Write" /\ session.open_before
    /\ ReqSectors = 2 /\ write_size_left = 1024
    /\ ~write_rdma_valid
    /\ sent = <<>>

(***************************************************************************)
(* C5.  After a Write of n >= 1 sectors, with no other Write in between:   *)
(* no WriteDone is sent while the block_count * block_size of the          *)
(* WriteRdma packets received since sum to less than n * 512, and the      *)
(* first WriteRdma that brings the sum to n * 512 or more is answered by   *)
(* a WriteDone.                                                            *)
(* Fails on a WriteRdma whose block_count * block_size exceeds the 1466    *)
(* bytes of Rdma::data: &req.data[..size] panics and nothing is sent.      *)
(***************************************************************************)
HasWriteDone(burst) == \E k \in 1..Len(burst) : IsWriteDone(burst[k])

C5_WriteDoneWhenSumReachesTotal ==
    [][ (dispatched' = "WriteRdma" /\ session.total >= 512)
            => /\ session'.recv < session.total => ~HasWriteDone(sent')
               /\ (session.recv < session.total /\ session'.recv >= session.total)
                      => HasWriteDone(sent') ]_vars

(***************************************************************************)
(* C6.  Every WriteReply sent has command 0x06, the command_id of the      *)
(* WriteRdma being handled, command_pkt = that command_id + 1 and          *)
(* result 0, also for a session whose seek failed.                         *)
(***************************************************************************)
C6_WriteReplyFields ==
    \A k \in 1..Len(sent) :
        (dispatched = "WriteRdma" \/ IsWriteDone(sent[k])) =>
            /\ dispatched = "WriteRdma"
            /\ sent[k].len = SizeOfWriteReply
            /\ command(sent[k].header) = CmdWriteDone
            /\ command_id(sent[k].header) = ReqId
            /\ command_pkt(sent[k].header) = ReqId + 1
            /\ sent[k].result = 0

C6_WriteDoneForInvalidSession ==
    /\ dispatched = "WriteRdma" /\ ~write_rdma_valid /\ session.total > 0
    /\ Len(sent) = 1
    /\ command_id(sent[1].header) = 7 /\ command_pkt(sent[1].header) = 8
    /\ sent[1].result = 0

(***************************************************************************)
(* C7.  As claimed: an Info or a Read received while a write session is    *)
(* open (write_size_left > 0) aborts it, the server is back in Idle.       *)
(* Fails: neither handler touches write_size_left.                         *)
(***************************************************************************)
C7_InfoOrReadAbortsSession ==
    (dispatched \in {"Info", "Read"} /\ session.open_before) => write_size_left = 0

(***************************************************************************)
(* C7, amended.  An Info or a Read leaves write_size_left and              *)
(* write_rdma_valid as they were, so the session stays open and the next   *)
(* WriteRdma the server handles still counts toward it (write_size_left    *)
(* goes down by its size, stopping at 0); a Write replaces the session by  *)
(* the new one.                                                            *)
(***************************************************************************)
C7_InfoAndReadKeepSession ==
    [][ /\ dispatched' \in {"Info", "Read"}
            => /\ write_size_left' = write_size_left
               /\ write_rdma_valid' = write_rdma_valid
        /\ (dispatched' = "WriteRdma" /\ ~panicked')
            => LET size == blocks_size(buf_block_type(buf'), overflow_checks).size
               IN  write_size_left' = IF write_size_left >= size
                                      THEN write_size_left - size ELSE 0
        /\ dispatched' = "Write"
            => /\ write_size_left' = buf_sector_count(buf') * 512
               /\ session'.total = write_size_left' /\ session'.recv = 0 ]_vars

C7_SessionSurvivesRead ==
    /\ dispatched = "Read" /\ session.open_before
    /\ write_size_left = session.total - session.recv /\ write_size_left > 0
    /\ Len(sent) > 0

(***************************************************************************)
(* C8.  For every Info request with command_id c, in any server state,     *)
(* exactly one datagram is sent, to the sender: a 10-byte InfoReply with   *)
(* command 0x01, command_id c, command_pkt 1, sector_size 512 and the      *)
(* sector count of the image.                                              *)
(***************************************************************************)
ImageSectorCounts == {cc * 2048 : cc \in ClusterCounts}

C8_InfoReply ==
    dispatched = "Info" =>
        /\ Len(sent) = 1
        /\ sent[1].to = addr
        /\ sent[1].len = 10
        /\ command(sent[1].header) = 1
        /\ command_id(sent[1].header) = ReqId
        /\ command_pkt(sent[1].header) = 1
        /\ sent[1].sector_size = 512
        /\ sent[1].sector_count = block_device.sector_count
        /\ sent[1].sector_count \in ImageSectorCounts

C8_InfoDuringSession ==
    /\ dispatched = "Info" /\ ReqId = 7 /\ addr = "B"
    /\ write_size_left > 0 /\ block_device.block_shift = 6
    /\ Len(sent) = 1 /\ command_id(sent[1].header) = 7

(***************************************************************************)
(* C9.  As claimed: the datagram 01 00 is decoded as an Info request and   *)
(* answered by a 10-byte reply with cmd 1, sector_size 512 and the image's *)
(* sector count.                                                           *)
(* Fails: the bytes 01 00 are the little-endian u16 0x0001, whose bits     *)
(* 0..=4 are command 1 (InfoReply), which no arm of run handles.           *)
(***************************************************************************)
AnswersInfo ==
    /\ dispatched = "Info"
    /\ Len(sent) = 1
    /\ sent[1].len = 10
    /\ command(sent[1].header) = 1
    /\ sent[1].sector_size = 512
    /\ sent[1].sector_count = block_device.sector_count

C9_Datagram0100IsInfo ==
    (dispatched # "none" /\ buf[1] = 1 /\ buf[2] = 0) => AnswersInfo

(***************************************************************************)
(* C9, amended.  The datagram 00 00 is decoded as an Info request (cmd 0,  *)
(* id 0, pkt 0) and answered by a 10-byte reply with cmd 1, sector_size    *)
(* 512 and the image's sector count.                                       *)
(***************************************************************************)
C9_Datagram0000IsInfo ==
    (dispatched # "none" /\ buf[1] = 0 /\ buf[2] = 0) =>
        /\ command(buf_header(buf)) = 0
        /\ command_id(buf_header(buf)) = 0
        /\ command_pkt(buf_header(buf)) = 0
        /\ AnswersInfo

C9_Datagram0000Answered ==
    /\ dispatched = "Info" /\ buf[1] = 0 /\ buf[2] = 0
    /\ Len(sent) = 1 /\ sent[1].len = 10 /\ sent[1].sector_count = 65536

(***************************************************************************)
(* C10.  The device is read-only: whatever Write and WriteRdma commands    *)
(* came before, a Read sends the packets a server that never saw a write   *)
(* sends for the same request; the write payload changes nothing.          *)
(***************************************************************************)
FreshDevice ==
    ServerNew(CHOOSE cc \in ClusterCounts : cc * 2048 = block_device.sector_count).block_device

C10_ReadsUnaffectedByWrites ==
    /\ block_device.dirty = {}
    /\ dispatched = "Read" =>
          sent = handle_cmd_read(FreshDevice, 0, FALSE, buf_header(buf),
                                 ReqSectorNr, ReqSectors, addr, overflow_checks).sent

C10_ReadAfterValidWrite ==
    /\ dispatched = "Read" /\ write_rdma_valid /\ session.recv >= 512
    /\ Len(sent) = 1 /\ ~sent[1].data.zero
    /\ sent[1].data.off = 100 * 512 /\ sent[1].data.len = 512

(***************************************************************************)
(* C11.  No received datagram terminates the server: whatever the          *)
(* datagram, the handler finishes and run goes back to recv_from.          *)
(* Fails: a WriteRdma whose block_count * block_size is above 1466 makes   *)
(* &req.data[..size] panic; so do the u16 overflows of the debug build.    *)
(***************************************************************************)
C11_NoDatagramTerminates == ~panicked

(***************************************************************************)
(* C12.  The RDMA packets of a Read are sent as one burst and the k-th     *)
(* packet of the burst carries command_pkt = k, for every number of        *)
(* packets a sector count can ask for.                                     *)
(* Fails from the 256th packet on: command_pkt is a u8, 255 + 1 wraps to 0 *)
(* in the release build (the debug build panics after the 255th packet).   *)
(***************************************************************************)
C12_BurstNumberedFromOne ==
    dispatched = "Read" =>
        \A k \in 1..Len(sent) : IsRdma(sent[k]) /\ command_pkt(sent[k].header) = k

(***************************************************************************)
(* C13.  A datagram whose command is none of Info, Read, Write, WriteRdma  *)
(* (codes 1, 3, 6 and 7..31) is answered by no datagram and leaves         *)
(* write_size_left, write_rdma_valid and the device (cursor and block      *)
(* parameters) as they were.                                               *)
(***************************************************************************)
C13_OtherCommandsDropped ==
    [][ command(buf_header(buf')) \notin {CmdInfo, CmdRead, CmdWrite, CmdWriteRdma}
            => /\ dispatched' \in {"Unexpected", "Unknown"}
               /\ sent' = <<>>
               /\ write_size_left' = write_size_left
               /\ write_rdma_valid' = write_rdma_valid
               /\ block_device' = block_device
               /\ panicked' = panicked ]_vars

C13_ReservedCodeDuringSession ==
    /\ dispatched = "Unknown" /\ command(buf_header(buf)) = 31
    /\ sent = <<>>
    /\ write_size_left = 1024 /\ write_rdma_valid
    /\ block_device.position = 100 * 512 /\ block_device.block_shift = 6

(***************************************************************************)
(* C14.  When the seek of a Read fails, the packets sent are those of the  *)
(* same Read with a seek that succeeds (as many, with the same headers,    *)
(* block types and lengths), every payload byte zero.                      *)
(***************************************************************************)
SameReadAtSector0 ==
    handle_cmd_read(block_device, write_size_left, write_rdma_valid, buf_header(buf),
                    0, ReqSectors, addr, overflow_checks).sent

C14_FailedSeekSendsZeros ==
    (dispatched = "Read" /\ ReqSectorNr >= block_device.sector_count) =>
        /\ Len(sent) = Len(SameReadAtSector0)
        /\ \A k \in 1..Len(sent) :
              /\ sent[k].to = SameReadAtSector0[k].to
              /\ sent[k].header = SameReadAtSector0[k].header
              /\ sent[k].block_type = SameReadAtSector0[k].block_type
              /\ sent[k].len = SameReadAtSector0[k].len
              /\ sent[k].data.len = SameReadAtSector0[k].data.len
              /\ ~SameReadAtSector0[k].data.zero
              /\ sent[k].data.zero

C14_ZeroBurstOfFivePackets ==
    /\ dispatched = "Read" /\ ReqSectorNr = 65536 /\ ReqSectors = 14
    /\ Len(sent) = 5
    /\ \A k \in 1..5 : sent[k].data.zero
    /\ sent[5].len = 6 + 44 * 32

(***************************************************************************)
(* C15.  Header and BlockType round-trip: fields packed with the with_     *)
(* methods (command 0..6, command_id 0..7, command_pkt 0..255; block_shift *)
(* 0..15, block_count 0..511) and laid out little-endian read back as the  *)
(* same fields, with command in bits 0..=4, command_id in bits 5..=7,      *)
(* command_pkt in bits 8..=15, block_shift in bits 0..=3 and block_count   *)
(* in bits 4..=12; and the fields read from a valid header, or from a      *)
(* BlockType whose spare bits are zero, pack to the same bytes again.      *)
(***************************************************************************)
SpareBitsZero(bytes) == le32(bytes, 1) < 8192

C15_BitfieldsRoundTrip ==
    /\ codec.kind = "PackHeader" =>
          /\ codec.back = codec.fields
          /\ le16(codec.bytes, 1) =
                 codec.fields[1] + 32 * codec.fields[2] + 256 * codec.fields[3]
    /\ codec.kind = "ParseHeader" => codec.back = codec.bytes
    /\ codec.kind = "PackBlockType" =>
          /\ codec.back = codec.fields
          /\ le32(codec.bytes, 1) = codec.fields[1] + 16 * codec.fields[2]
    /\ (codec.kind = "ParseBlockType" /\ SpareBitsZero(codec.bytes)) =>
          codec.back = codec.bytes

C15_WriteDoneHeaderPacked ==
    /\ codec.kind = "PackHeader"
    /\ codec.fields = <<CmdWriteDone, 7, 255>>
    /\ codec.bytes = <<230, 255>>
    /\ codec.back = <<CmdWriteDone, 7, 255>>

(***************************************************************************)
(* C16.  For every scanned tree of F files with B bytes in all (B >= 0)    *)
(* and D directories, cluster_count is the smallest even number that is    *)
(* at least ceil(B / 2^20) + 3 * (D + F), and the sector_count the device  *)
(* stores and InfoReply reports is cluster_count * 2048.                   *)
(* Fails for B = 0: unsigned_rounded_up_div computes 0 - 1 in u64.  The    *)
(* debug build panics in VexFat::new; the release build wraps and gets     *)
(* cluster_count = 2^44 + the claimed number.                              *)
(***************************************************************************)
ExpectedClusterCount ==
    LET x == CeilDiv(tree.total_files_bytes, 1048576)
             + 3 * (tree.total_dirs_count + tree.total_files_count)
    IN  IF x % 2 = 0 THEN x ELSE x + 1

C16_ClusterCountForTree ==
    dispatched # "none" =>
        /\ ~panicked
        /\ tree.cluster_count = u64(ExpectedClusterCount)
        /\ block_device.sector_count = ExpectedClusterCount * 2048
        /\ dispatched = "Info" =>
              /\ Len(sent) = 1
              /\ sent[1].sector_count = ExpectedClusterCount * 2048

(***************************************************************************)
(* C17.  Every RDMA packet of a Read has the current block shift and a     *)
(* block_count of min(blocks_left, blocks_per_packet), between 1 and       *)
(* blocks_per_packet; it is 6 + block_count * block_size bytes long, at    *)
(* most 1472, with a payload that is a multiple of 4; every packet but     *)
(* the last of the burst carries blocks_per_packet blocks.                 *)
(***************************************************************************)
ReadBlocks == ReqSectors * block_device.blocks_per_socket

C17_RdmaPacketShape ==
    dispatched = "Read" =>
        \A k \in 1..Len(sent) :
            LET p == sent[k]
                n == bt_block_count(p.block_type)
            IN  /\ IsRdma(p)
                /\ p.block_type = MkBlockType(block_device.block_shift, n)
                /\ n >= 1 /\ n <= block_device.blocks_per_packet
                /\ p.data.len = n * block_device.block_size
                /\ p.len = 6 + n * block_device.block_size
                /\ p.len <= 1472
                /\ (p.len - 6) % 4 = 0
                /\ k < Len(sent) => n = block_device.blocks_per_packet
                /\ (k = Len(sent) /\ ~panicked /\ ReadBlocks < U16) =>
                       n = ReadBlocks - (k - 1) * block_device.blocks_per_packet

C17_LastPacketShorter ==
    /\ dispatched = "Read" /\ ReqSectors = 14 /\ block_device.block_shift = 3
    /\ Len(sent) = 5
    /\ bt_block_count(sent[1].block_type) = 45 /\ sent[1].len = 1446
    /\ bt_block_count(sent[5].block_type) = 44 /\ sent[5].len = 1414

(***************************************************************************)
(* C18.  A Write is acknowledged by at most one WriteDone: once the        *)
(* WriteDone of a session was sent and write_size_left is 0, a further     *)
(* WriteRdma is answered by no WriteDone until a new Write arrives.        *)
(* Fails: handle_cmd_write_rdma sends a WriteDone whenever write_size_left *)
(* is 0 after the subtraction, and 0 - size saturates to 0.                *)
(***************************************************************************)
C18_AtMostOneWriteDone ==
    [][ ( /\ dispatched = "WriteRdma" /\ HasWriteDone(sent) /\ write_size_left = 0
          /\ session.total > 0
          /\ dispatched' = "WriteRdma" )
            => ~HasWriteDone(sent') ]_vars

(***************************************************************************)
(* C19.  The Read handler ends for every sector count n and sends exactly  *)
(* packets_min = ceil(n * 512 / 1440) RDMA packets.                        *)
(* Fails where sector_count * blocks_per_socket leaves u16 (4096 sectors   *)
(* at shift 3: no packet, or a panic) and, in the debug build, where the   *)
(* burst has 255 packets or more.                                          *)
(***************************************************************************)
C19_ReadSendsPacketsMin ==
    dispatched = "Read" =>
        /\ ~panicked
        /\ Len(sent) = CeilDiv(ReqSectors * 512, 1440)

(***************************************************************************)
(* C20.  In every state after Server::new the block parameters are         *)
(* consistent and not zero: block_shift is one of 3, 5, 6, 7, and 5 until  *)
(* the first Read; block_size = 1 << (block_shift + 2); blocks_per_packet  *)
(* = 1466 / block_size >= 1; blocks_per_socket = 512 / block_size >= 1.    *)
(***************************************************************************)
BlockParametersConsistent(bd) ==
    /\ bd.block_shift \in {3, 5, 6, 7}
    /\ bd.block_size = 2 ^ (bd.block_shift + 2)
    /\ bd.blocks_per_packet = 1466 \div bd.block_size
    /\ bd.blocks_per_packet >= 1
    /\ bd.blocks_per_socket = 512 \div bd.block_size
    /\ bd.blocks_per_socket >= 1

C20_BlockParameters ==
    /\ [](BlockParametersConsistent(block_device)
          /\ (dispatched = "none" => block_device.block_shift = 5))
    /\ [][ (block_device.block_shift = 5 /\ dispatched' # "Read")
              => block_device'.block_shift = 5 ]_vars

C20_SameShiftRequested ==
    /\ dispatched = "Read" /\ ReqSectors = 11
    /\ block_device.block_shift = 5
    /\ block_device.block_size = 128
    /\ block_device.blocks_per_packet = 11
    /\ block_device.blocks_per_socket = 4

(***************************************************************************)
(* C21.  The byte count a WriteRdma takes off write_size_left is           *)
(* block_count * (1 << (block_shift + 2)) for every block_type it can      *)
(* carry (block_shift 0..15, block_count 0..511), without wrap-around in   *)
(* the u16 result of blocks_size.                                          *)
(* Fails: the product is computed in u16.  block_count 256 at block_shift  *)
(* 6 is 65536 bytes, which the release build wraps to 0.                   *)
(***************************************************************************)
C21_WriteRdmaSubtractsBlocksSize ==
    [][ (dispatched' = "WriteRdma" /\ ~panicked')
            => LET bt   == buf_block_type(buf')
                   size == bt_block_count(bt) * (2 ^ (bt_block_shift(bt) + 2))
               IN  write_size_left' = IF write_size_left >= size
                                      THEN write_size_left - size ELSE 0 ]_vars

(***************************************************************************)
(* C23.  With clients A and B interleaving, every datagram sent goes to    *)
(* the source address of the datagram being handled: InfoReply and RDMA    *)
(* packets to the requester, WriteDone to the sender of the WriteRdma that *)
(* brought write_size_left to 0, whoever sent the Write.                   *)
(***************************************************************************)
\* A sends with command_id 0 and B with command_id 7
SourceOfRequest == IF ReqId = 7 THEN "B" ELSE "A"

C23_RepliesGoToSender ==
    dispatched # "none" =>
        /\ addr = SourceOfRequest
        /\ \A k \in 1..Len(sent) : sent[k].to = SourceOfRequest

C23_WriteDoneToOtherClient ==
    /\ dispatched = "WriteRdma" /\ ReqId = 7 /\ addr = "B"
    /\ session.total = 512 /\ session.open_before /\ write_size_left = 0
    /\ Len(sent) = 1 /\ IsWriteDone(sent[1]) /\ sent[1].to = "B"

(***************************************************************************)
(* C24.  Only Read changes the block parameters: Info, Write, WriteRdma    *)
(* and dropped commands leave block_shift, block_size, blocks_per_packet   *)
(* and blocks_per_socket as they were, so the block shift always is the    *)
(* one selected for the sector_count of the last Read, or 5 before the     *)
(* first Read.                                                             *)
(***************************************************************************)
BlockParameters(bd) ==
    <<bd.block_shift, bd.block_size, bd.blocks_per_packet, bd.blocks_per_socket>>

C24_OnlyReadTunes ==
    /\ [](dispatched = "none" => block_device.block_shift = 5)
    /\ [][ /\ dispatched' = "Read"
               => block_device'.block_shift = shift_for_sectors(buf_sector_count(buf'))
           /\ dispatched' # "Read"
               => BlockParameters(block_device') = BlockParameters(block_device) ]_vars

C24_ShiftKeptAcrossWrite ==
    /\ dispatched = "WriteRdma" /\ write_size_left = 0 /\ session.total = 512
    /\ BlockParameters(block_device) = <<3, 32, 45, 16>>

(***************************************************************************)
(* C22.  What the server does with a datagram (the packets it sends, the   *)
(* state it is in next) depends on the bytes of that datagram and on       *)
(* write_size_left, write_rdma_valid, the cursor and the block shift       *)
(* alone, not on the content of a datagram handled before; also for a      *)
(* datagram that is shorter than the struct it is decoded as.              *)
(* The formula compares each step with the step the same server takes on   *)
(* the same datagram when the datagram handled before it was the dropped   *)
(* one with six zero bytes behind the header, which changes nothing but    *)
(* the buffer.                                                             *)
(* Fails: run decodes size_of::<T>() bytes of buf whatever recv_from       *)
(* returned, so a two-byte Read or Write takes sector_nr and sector_count  *)
(* from the bytes an earlier datagram left in buf.                         *)
(***************************************************************************)
ZeroBuf == [i \in 1..SizeOfReadWriteRequest |-> 0]

C22_ReactionIgnoresEarlierDatagrams ==
    [][ \A c \in Clients(traffic) :
            (buf' = recv_from(buf, c[2]) /\ addr' = c[1]) =>
                LET o == dispatch(recv_from(ZeroBuf, c[2]), c[1], block_device,
                                  write_size_left, write_rdma_valid, overflow_checks)
                IN  /\ sent' = o.sent
                    /\ block_device' = o.bd
                    /\ write_size_left' = o.write_size_left
                    /\ write_rdma_valid' = o.write_rdma_valid
                    /\ panicked' = o.panicked ]_vars

(***************************************************************************)
(* C25.  unsigned_rounded_up_div(a, b) is ceil(a / b) for every unsigned   *)
(* a >= 0 and b >= 1, a = 0 included, without underflow or wrap-around.    *)
(* Fails for a = 0: a.sub(1) underflows, the build with overflow checks    *)
(* panics and the other returns (MAX / b) + 1.                             *)
(***************************************************************************)
C25_RoundedUpDivIsCeiling ==
    call.fn = "unsigned_rounded_up_div" =>
        /\ ~call.panicked
        /\ call.value = CeilDiv(call.a, call.b)

(***************************************************************************)
(* C26.  As claimed: unsigned_align_to(a, b) is the smallest multiple of   *)
(* b that is >= a for every unsigned a >= 1 and b >= 1, and a itself when  *)
(* a is a multiple of b.                                                   *)
(* Fails where that multiple is not a value of T (255 and 2 for u8): the   *)
(* multiplication overflows.                                               *)
(***************************************************************************)
SmallestMultiple(a, b) == CeilDiv(a, b) * b

C26_AlignToIsSmallestMultiple ==
    (call.fn = "unsigned_align_to" /\ call.a >= 1) =>
        /\ ~call.panicked
        /\ call.value = SmallestMultiple(call.a, call.b)
        /\ call.a % call.b = 0 => call.value = call.a

(***************************************************************************)
(* C26, amended.  For a >= 1 and b >= 1, when the smallest multiple of b   *)
(* that is >= a is a value of T, unsigned_align_to(a, b) returns it, and   *)
(* returns a itself when a is a multiple of b; when it is not a value of   *)
(* T, the multiplication overflows: the build with overflow checks         *)
(* panics, the other returns the multiple less 2^bits.                     *)
(***************************************************************************)
C26_AlignToWithinT ==
    (call.fn = "unsigned_align_to" /\ call.a >= 1) =>
        IF SmallestMultiple(call.a, call.b) < U8
        THEN /\ ~call.panicked
             /\ call.value = SmallestMultiple(call.a, call.b)
             /\ call.a % call.b = 0 => call.value = call.a
        ELSE /\ overflow_checks => call.panicked
             /\ ~overflow_checks =>
                   /\ ~call.panicked
                   /\ call.value = SmallestMultiple(call.a, call.b) - U8

C26_FiveAlignedToEight ==
    /\ call.fn = "unsigned_align_to" /\ call.a = 5 /\ call.b = 8
    /\ ~call.panicked /\ call.value = 8

====
